---------------------------- MODULE Spec2Model ----------------------------
(***************************************************************************)
(* PdfPageXObjectFormObject (src/pdf/document/page/object/x_object_form.rs):*)
(* a view over the child page objects of one native form object.           *)
(*                                                                         *)
(* The native library is the environment.  Its state is the child list of  *)
(* the form object (children), and whether the library currently answers   *)
(* normally, answers a null handle for every lookup, or does not accept    *)
(* the form handle at all (nativeMode).  Every native call made by the     *)
(* view is one step of the model, so that the environment can change the   *)
(* child list between two native calls of a single operation.              *)
(*                                                                         *)
(* Integer widths are scaled down: the 32-bit word is NarrowBits wide and  *)
(* the 64-bit word is WideBits wide.  PdfPageObjectIndex is usize; the     *)
(* targets the crate is built for differ in the widths of usize and of     *)
(* c_ulong (c_ulong is 32 bits wide on 64-bit Windows).                    *)
(***************************************************************************)
EXTENDS Integers, Sequences, FiniteSets, TLC

\* ---------------------------------------------------------------- bounds
MaxChildren == 3
NarrowBits == 3
WideBits == 4

Pow2(n) == 2 ^ n

\* ------------------------------------------------------------ the universe
NULL == 0
Handles == 1 .. MaxChildren
Ownerships == {"Page", "Unowned"}
Objects == [handle : Handles \cup {NULL}, ownership : Ownerships]

\* Targets: the widths of usize and c_ulong.
LP64 == [usize |-> WideBits, c_ulong |-> WideBits]
LLP64 == [usize |-> WideBits, c_ulong |-> NarrowBits]
ILP32 == [usize |-> NarrowBits, c_ulong |-> NarrowBits]
Targets == {LP64, LLP64, ILP32}

\* A build: the target, whether integer overflow checks are compiled in
\* (debug profile) and whether the pdfium_future feature is selected.
Builds == [target : Targets, overflow_checks : BOOLEAN, pdfium_future : BOOLEAN]

NativeModes == {"ok", "null_fault", "invalid"}

\* The child lists.  A handle is opaque and only its identity matters, so a
\* list is written with its handles in increasing order: every list of
\* distinct handles is such a list after renaming the handles.
ChildLists ==
    {s \in UNION {[1 .. k -> Handles] : k \in 0 .. MaxChildren} :
        \A i, j \in DOMAIN s : i < j => s[i] < s[j]}

\* s with h put in at its place: at the front, in the middle or at the end.
InsertAt(s, h) ==
    LET k == Cardinality({i \in DOMAIN s : s[i] < h})
    IN [i \in 1 .. (Len(s) + 1) |->
           IF i <= k THEN s[i] ELSE IF i = k + 1 THEN h ELSE s[i - 1]]

Elems(s) == {s[i] : i \in DOMAIN s}

RemoveAt(s, k) == [i \in 1 .. (Len(s) - 1) |-> IF i < k THEN s[i] ELSE s[i + 1]]

IndexOf(s, h) == CHOOSE i \in DOMAIN s : s[i] = h

VARIABLES
    children,       \* native: the child list of the form object, in order
    nativeMode,     \* native: how the library answers for this form handle
    build,          \* the build of the crate
    ownership,      \* self.ownership
    pc,             \* the caller's position inside the current operation
    op,             \* the public operation last called
    index,          \* the index argument / the index passed on to get()
    object_handle,  \* get_impl's local object_handle
    result,         \* what the last operation returned
    mutated         \* the native state changed while the operation was running

vars == <<children, nativeMode, build, ownership, pc, op, index, object_handle,
          result, mutated>>

\* ------------------------------------------------------------------ values
Val(k, h, o, e, lo, hi) ==
    [kind |-> k, handle |-> h, ownership |-> o, err |-> e, lo |-> lo, hi |-> hi]

None == Val("None", NULL, "", "", 0, 0)
Panic == Val("Panic", NULL, "", "", 0, 0)
Unit == Val("Unit", NULL, "", "", 0, 0)
Ok(h, o) == Val("Ok", h, o, "", 0, 0)
Err(e) == Val("Err", NULL, "", e, 0, 0)
Index(n) == Val("Index", NULL, "", "", n, n)
Bool(b) == Val(IF b THEN "True" ELSE "False", NULL, "", "", 0, 0)
Range(lo, hi) == Val("Range", NULL, "", "", lo, hi)
RangeInclusive(lo, hi) == Val("RangeInclusive", NULL, "", "", lo, hi)
Iterator(next) == Val("Iterator", NULL, "", "", next, next)

PageObjectIndexOutOfBounds == "PageObjectIndexOutOfBounds"
NoPageObjectsInCollection == "NoPageObjectsInCollection"
PageObjectsCollectionIsImmutable == "PageObjectsCollectionIsImmutable"
PageObjectNotCopyable == "PageObjectNotCopyable"
PdfiumLibraryInternalError == "PdfiumLibraryInternalError(Unknown)"

UsizeMod == Pow2(build.target.usize)
UsizeMax == UsizeMod - 1
Indices == 0 .. UsizeMax

TypeOK ==
    /\ children \in ChildLists
    /\ nativeMode \in NativeModes
    /\ build \in Builds
    /\ ownership \in Ownerships
    /\ pc \in {"idle", "get_call", "get_bounds", "last_len", "range_len", "panicked"}
    /\ index \in Indices
    /\ object_handle \in Handles \cup {NULL}
    /\ mutated \in BOOLEAN

Init ==
    /\ children \in ChildLists
    /\ nativeMode = "ok"
    /\ build \in Builds
    /\ ownership = "Page"
    /\ pc = "idle"
    /\ op = "from_pdfium"
    /\ index = 0
    /\ object_handle = NULL
    /\ result = None
    /\ mutated = FALSE

\* ------------------------------------------------------- the native library
\* FPDFFormObj_CountObjects(): the number of children, or -1 when the library
\* does not accept the form handle.
FPDFFormObj_CountObjects ==
    IF nativeMode = "invalid" THEN -1 ELSE Len(children)

\* FPDFFormObj_GetObject(): the child at a zero-based index, or a null handle.
FPDFFormObj_GetObject(i) ==
    IF nativeMode = "ok" /\ i < Len(children) THEN children[i + 1] ELSE NULL

\* FPDFFormObj_RemoveObject() followed by bindings.is_true(): whether the
\* library detached the child.
FPDFFormObj_RemoveObject(h) ==
    nativeMode # "invalid" /\ h \in Elems(children)

\* ------------------------------------------------------------ conversions
\* `as PdfPageObjectIndex` on a C int: sign extension, then truncation to the
\* width of usize.
as_PdfPageObjectIndex(c) ==
    IF c < 0 THEN UsizeMod + c ELSE c % UsizeMod

\* `index as c_ulong`: truncation to the width of c_ulong.
as_c_ulong(i) == i % Pow2(build.target.c_ulong)

\* `a - b` on usize: panics on overflow when overflow checks are compiled in,
\* wraps otherwise.
usize_sub(a, b) ==
    IF a >= b THEN Index(a - b)
    ELSE IF build.overflow_checks THEN Panic
    ELSE Index(a - b + UsizeMod)

\* ------------------------------------------------------ the view, read side
len_impl == as_PdfPageObjectIndex(FPDFFormObj_CountObjects)

len == len_impl

is_empty == len = 0

as_range_value == Range(0, len)

\* get_impl's bounds check with the comparison off by one.
get_impl_null_off_by_one(i) ==
    IF i > len THEN Err(PageObjectIndexOutOfBounds)
    ELSE Err(PdfiumLibraryInternalError)

\* get_impl, the branch taken on a null handle: the bounds check.
get_impl_null(i) ==
    IF i >= len THEN Err(PageObjectIndexOutOfBounds)
    ELSE Err(PdfiumLibraryInternalError)

\* get_impl wrapping the child without the view's ownership.
get_impl_ok_unowned(h) == Ok(h, "Unowned")

\* get_impl, the branch taken on a handle: PdfPageObject::from_pdfium().
get_impl_ok(h) == Ok(h, ownership)

\* get_impl when nothing happens between its two native calls.
get_impl(i) ==
    LET h == FPDFFormObj_GetObject(as_c_ulong(i))
    IN IF h = NULL THEN get_impl_null(i) ELSE get_impl_ok(h)

\* A public operation is called: the caller is between operations.
Call(name) ==
    /\ pc = "idle"
    /\ op' = name

\* The operation returns: its locals are gone.
Return(v) ==
    /\ result' = v
    /\ pc' = "idle"
    /\ index' = 0
    /\ object_handle' = NULL
    /\ mutated' = FALSE

\* The operation goes on to its next native call.
Goto(label) ==
    /\ pc' = label
    /\ result' = None

Native == <<children, nativeMode>>

\* len()
len_call ==
    /\ Call("len")
    /\ Return(Index(len))
    /\ UNCHANGED <<Native, build, ownership>>

\* is_empty()
is_empty_call ==
    /\ Call("is_empty")
    /\ Return(Bool(is_empty))
    /\ UNCHANGED <<Native, build, ownership>>

\* as_range()
as_range ==
    /\ Call("as_range")
    /\ Return(as_range_value)
    /\ UNCHANGED <<Native, build, ownership>>

\* A panic unwinds out of the operation: nothing is returned.
Unwind ==
    /\ result' = Panic
    /\ pc' = "panicked"
    /\ index' = 0
    /\ object_handle' = NULL
    /\ mutated' = FALSE

\* as_range_inclusive() without the emptiness test.
as_range_inclusive_unchecked ==
    /\ Call("as_range_inclusive")
    /\ Goto("range_len")
    /\ UNCHANGED <<index, object_handle, mutated>>
    /\ UNCHANGED <<Native, build, ownership>>

\* as_range_inclusive(), up to its first read of the count: self.is_empty().
as_range_inclusive ==
    /\ Call("as_range_inclusive")
    /\ IF is_empty
          THEN Return(RangeInclusive(0, 0))
          ELSE /\ Goto("range_len")
               /\ UNCHANGED <<index, object_handle, mutated>>
    /\ UNCHANGED <<Native, build, ownership>>

\* as_range_inclusive(), its second read of the count: 0..=(self.len() - 1).
as_range_inclusive_len ==
    /\ pc = "range_len"
    /\ LET n == usize_sub(len, 1)
       IN IF n = Panic
             THEN Unwind
             ELSE Return(RangeInclusive(0, n.lo))
    /\ UNCHANGED <<Native, build, ownership, op>>

\* get(index)
get(i) ==
    /\ Call("get")
    /\ Goto("get_call")
    /\ index' = i
    /\ UNCHANGED <<Native, build, ownership, object_handle, mutated>>

\* get_impl: the call of FPDFFormObj_GetObject and the is_null() test.
get_impl_call ==
    /\ pc = "get_call"
    /\ LET h == FPDFFormObj_GetObject(as_c_ulong(index))
       IN IF h = NULL
             THEN /\ Goto("get_bounds")
                  /\ object_handle' = h
                  /\ UNCHANGED <<index, mutated>>
             ELSE Return(get_impl_ok(h))
    /\ UNCHANGED <<Native, build, ownership, op>>

\* get_impl: the bounds check on a null handle, with a fresh read of len().
get_impl_bounds ==
    /\ pc = "get_bounds"
    /\ Return(get_impl_null(index))
    /\ UNCHANGED <<Native, build, ownership, op>>

\* first() without the emptiness test.
first_unchecked ==
    /\ Call("first")
    /\ Goto("get_call")
    /\ index' = 0
    /\ UNCHANGED <<object_handle, mutated>>
    /\ UNCHANGED <<Native, build, ownership>>

\* first()
first ==
    /\ Call("first")
    /\ IF ~is_empty
          THEN /\ Goto("get_call")
               /\ index' = 0
               /\ UNCHANGED <<object_handle, mutated>>
          ELSE Return(Err(NoPageObjectsInCollection))
    /\ UNCHANGED <<Native, build, ownership>>

\* last(), up to its first read of the count: self.is_empty().
last ==
    /\ Call("last")
    /\ IF ~is_empty
          THEN /\ Goto("last_len")
               /\ UNCHANGED <<index, object_handle, mutated>>
          ELSE Return(Err(NoPageObjectsInCollection))
    /\ UNCHANGED <<Native, build, ownership>>

\* last(), its second read of the count: self.get(self.len() - 1).
last_len ==
    /\ pc = "last_len"
    /\ LET n == usize_sub(len, 1)
       IN IF n = Panic
             THEN Unwind
             ELSE /\ Goto("get_call")
                  /\ index' = n.lo
                  /\ UNCHANGED <<object_handle, mutated>>
    /\ UNCHANGED <<Native, build, ownership, op>>

\* iter(): a new iterator over the view, positioned at index 0.
iter ==
    /\ Call("iter")
    /\ Return(Iterator(0))
    /\ UNCHANGED <<Native, build, ownership>>

\* ----------------------------------------------------- the view, write side
\* add_object_impl() appending the object to the native child list.
add_object_impl_appends(object) ==
    /\ Call("add")
    /\ children' = IF object.handle \in Elems(children) \/ object.handle = NULL
                      \/ Len(children) >= MaxChildren
                      THEN children
                      ELSE InsertAt(children, object.handle)
    /\ Return(Err(PageObjectsCollectionIsImmutable))
    /\ UNCHANGED <<nativeMode, build, ownership>>

\* add_object_impl() handing the object back as if it had been added.
add_object_impl_accepts(object) ==
    /\ Call("add")
    /\ Return(Ok(object.handle, object.ownership))
    /\ UNCHANGED <<Native, build, ownership>>

\* add_object_impl(): the child objects collection is read-only.
add_object_impl(object) ==
    /\ Call("add")
    /\ Return(Err(PageObjectsCollectionIsImmutable))
    /\ UNCHANGED <<Native, build, ownership>>

\* remove_object_impl() without the call of set_ownership().
remove_object_impl_future_keeps_ownership(object) ==
    /\ Call("remove")
    /\ IF FPDFFormObj_RemoveObject(object.handle)
          THEN /\ children' = RemoveAt(children, IndexOf(children, object.handle))
               /\ Return(Ok(object.handle, object.ownership))
          ELSE /\ Return(Err(PdfiumLibraryInternalError))
               /\ UNCHANGED children
    /\ UNCHANGED <<nativeMode, build, ownership>>

\* remove_object_impl() as compiled with the pdfium_future feature.
remove_object_impl_future(object) ==
    /\ Call("remove")
    /\ IF FPDFFormObj_RemoveObject(object.handle)
          THEN /\ children' = RemoveAt(children, IndexOf(children, object.handle))
               /\ Return(Ok(object.handle, "Unowned"))
          ELSE /\ Return(Err(PdfiumLibraryInternalError))
               /\ UNCHANGED children
    /\ UNCHANGED <<nativeMode, build, ownership>>

\* remove_object_impl() as compiled without the pdfium_future feature.
remove_object_impl_immutable(object) ==
    /\ Call("remove")
    /\ Return(Err(PageObjectsCollectionIsImmutable))
    /\ UNCHANGED <<Native, build, ownership>>

\* remove_object_impl() with the feature gate left out.
remove_object_impl_ungated(object) == remove_object_impl_future(object)

\* remove_object_impl(): the feature selects one of the two functions.
remove_object_impl(object) ==
    IF build.pdfium_future
       THEN remove_object_impl_future(object)
       ELSE remove_object_impl_immutable(object)

\* set_ownership()
set_ownership(o) ==
    /\ Call("set_ownership")
    /\ ownership' = o
    /\ Return(Unit)
    /\ UNCHANGED <<Native, build>>

\* is_copyable_impl()
is_copyable_impl ==
    /\ Call("is_copyable")
    /\ Return(Bool(FALSE))
    /\ UNCHANGED <<Native, build, ownership>>

\* try_copy_impl()
try_copy_impl ==
    /\ Call("try_copy")
    /\ Return(Err(PageObjectNotCopyable))
    /\ UNCHANGED <<Native, build, ownership>>

\* ------------------------------------------------------------ environment
\* The native child list and the library's mode change outside the view, at
\* any point between two native calls of the view.
View == <<build, ownership, pc, op, index, object_handle, result>>

NativeInsert(h) ==
    /\ pc # "panicked"
    /\ h \notin Elems(children)
    /\ children' = InsertAt(children, h)
    /\ mutated' = (pc # "idle")
    /\ UNCHANGED <<nativeMode, View>>

NativeRemove(h) ==
    /\ pc # "panicked"
    /\ h \in Elems(children)
    /\ children' = RemoveAt(children, IndexOf(children, h))
    /\ mutated' = (pc # "idle")
    /\ UNCHANGED <<nativeMode, View>>

NativeSetMode(m) ==
    /\ pc # "panicked"
    /\ m # nativeMode
    /\ nativeMode' = m
    /\ mutated' = (pc # "idle")
    /\ UNCHANGED <<children, View>>

NativeNext ==
    \/ \E h \in Handles : NativeInsert(h)
    \/ \E h \in Handles : NativeRemove(h)
    \/ \E m \in NativeModes : NativeSetMode(m)

\* Every step taken by an operation of the view.
ViewNext ==
    \/ len_call
    \/ is_empty_call
    \/ as_range
    \/ as_range_inclusive
    \/ as_range_inclusive_len
    \/ \E i \in Indices : get(i)
    \/ get_impl_call
    \/ get_impl_bounds
    \/ first
    \/ last
    \/ last_len
    \/ iter
    \/ \E object \in Objects : add_object_impl(object)
    \/ \E object \in Objects : remove_object_impl(object)
    \/ \E o \in Ownerships : set_ownership(o)
    \/ is_copyable_impl
    \/ try_copy_impl

Next == ViewNext \/ NativeNext

Spec == Init /\ [][Next]_vars

\* ------------------------------------------------------------------ claims
\* A step in which the operation `name` of the view returns without having
\* changed the native state.  Every step of the native library changes Native,
\* so a step that leaves Native alone is a step of the view.
Completes(name) == pc' = "idle" /\ op' = name /\ UNCHANGED Native

\* C1: get(i) fails with PageObjectIndexOutOfBounds if and only if i >= len(),
\* for every index and every state of the native child list (the child list
\* does not change while get() runs).
C1_GetOutOfBoundsIffBeyondLen ==
    [][(Completes("get") /\ ~mutated) =>
          ((result' = Err(PageObjectIndexOutOfBounds)) <=> (index >= len))]_vars

\* C2: first() and last() fail with NoPageObjectsInCollection exactly when
\* len() = 0; otherwise first() returns what get(0) returns and last() what
\* get(len() - 1) returns, the child list not changing during the call.
C2_FirstLastForward ==
    [][((Completes("first") \/ Completes("last")) /\ ~mutated) =>
          /\ (result' = Err(NoPageObjectsInCollection)) <=> (len = 0)
          /\ (len = 0) <=> is_empty
          /\ (len > 0 /\ op' = "first") => result' = get_impl(0)
          /\ (len > 0 /\ op' = "last") => result' = get_impl(len - 1)]_vars

C2_Witness ==
    /\ pc = "idle"
    /\ op = "last"
    /\ Len(children) = MaxChildren
    /\ result = Ok(children[MaxChildren], ownership)

\* C3: no step of an operation of the view makes the child list longer or
\* puts a child into it, and the only step that changes the list is a
\* successful remove with the pdfium_future feature, which takes one child out.
C3_SizeNeverGrows ==
    [][(children' # children /\ ViewNext) =>
          /\ Len(children') <= Len(children)
          /\ Elems(children') \subseteq Elems(children)
          /\ (children' # children) =>
                /\ op' = "remove"
                /\ result'.kind = "Ok"
                /\ build.pdfium_future
                /\ Len(children') = Len(children) - 1]_vars

C3_Witness ==
    /\ op = "remove"
    /\ result.kind = "Ok"
    /\ children = <<>>

\* C4: with pdfium_future, remove(object) returns the object with ownership
\* Unowned and len() is one less afterwards when the native library reports
\* success (removing get(1) from three children leaves len() = 2); it fails
\* with PdfiumLibraryInternalError(Unknown), returning no object and leaving
\* the list alone, when the native library reports failure.
C4_RemoveFuture ==
    [][\A object \in Objects :
          (op' = "remove" /\ build.pdfium_future /\ remove_object_impl(object)) =>
             IF FPDFFormObj_RemoveObject(object.handle)
                THEN /\ result' = Ok(object.handle, "Unowned")
                     /\ len' = len - 1
                     /\ object.handle \notin Elems(children')
                     /\ (Len(children) = 3 /\ object.handle = children[2])
                           => (len' = 2 /\ children' = <<children[1], children[3]>>)
                ELSE /\ result' = Err(PdfiumLibraryInternalError)
                     /\ children' = children]_vars

C4_Witness ==
    /\ build.pdfium_future
    /\ op = "remove"
    /\ result.kind = "Ok"
    /\ result.ownership = "Unowned"
    /\ result.handle \notin Elems(children)
    /\ len = 2

\* C5: without pdfium_future, remove(object) fails with
\* PageObjectsCollectionIsImmutable for every object in every state and leaves
\* the native child list, its length and its order as they were.
C5_RemoveImmutable ==
    [][(op' = "remove" /\ ~build.pdfium_future
          /\ \E object \in Objects : remove_object_impl(object)) =>
             /\ result' = Err(PageObjectsCollectionIsImmutable)
             /\ children' = children
             /\ nativeMode' = nativeMode
             /\ len' = len]_vars

C5_Witness ==
    /\ ~build.pdfium_future
    /\ op = "remove"
    /\ result = Err(PageObjectsCollectionIsImmutable)
    /\ Len(children) = MaxChildren

\* C6: add(object) fails with PageObjectsCollectionIsImmutable for every
\* object, valid or not, in every state and every build, and leaves len() and
\* every get(i) as they were.
C6_AddImmutable ==
    [][(op' = "add" /\ \E object \in Objects : add_object_impl(object)) =>
             /\ result' = Err(PageObjectsCollectionIsImmutable)
             /\ len' = len
             /\ \A i \in Indices : get_impl(i)' = get_impl(i)]_vars

C6_Witness ==
    /\ build.pdfium_future
    /\ op = "add"
    /\ result = Err(PageObjectsCollectionIsImmutable)
    /\ children # <<>>

\* C7: a child returned by get, first or last carries the ownership the view
\* holds at the time of the call.
C7_ChildInheritsOwnership ==
    (pc = "idle" /\ op \in {"get", "first", "last"} /\ result.kind = "Ok")
       => result.ownership = ownership

C7_Witness ==
    /\ pc = "idle"
    /\ op \in {"get", "first", "last"}
    /\ result.kind = "Ok"
    /\ result.ownership = "Unowned"
    /\ Len(children) < MaxChildren

\* C8: with n = len(), as_range() is 0..n and as_range_inclusive() is
\* 0..=(n - 1) when n > 0 and 0..=0 when n = 0.
C8_Ranges ==
    [][/\ Completes("as_range") => result' = Range(0, len)
       /\ (Completes("as_range_inclusive") /\ ~mutated) =>
             result' = IF len > 0 THEN RangeInclusive(0, len - 1)
                       ELSE RangeInclusive(0, 0)]_vars

C8_Witness ==
    /\ op = "as_range_inclusive"
    /\ pc = "idle"
    /\ result = RangeInclusive(0, 0)
    /\ len = 0

\* C9: no operation of the view panics, whatever the native count call
\* returns and however the child count changes between the two reads of
\* len() inside last() and as_range_inclusive().
C9_NoOperationPanics == pc # "panicked"

\* C10: when the native library returns a null handle, get fails with
\* PdfiumLibraryInternalError(Unknown) if the index is below len() as read
\* after the native call, and with PageObjectIndexOutOfBounds otherwise; it
\* never returns a child.
C10_NullHandleClassified ==
    [][(pc = "get_bounds" /\ UNCHANGED Native) =>
          /\ object_handle = NULL
          /\ pc' = "idle"
          /\ (index < len) => result' = Err(PdfiumLibraryInternalError)
          /\ (index >= len) => result' = Err(PageObjectIndexOutOfBounds)]_vars

C10_Witness ==
    /\ pc = "idle"
    /\ op = "get"
    /\ result = Err(PdfiumLibraryInternalError)
    /\ nativeMode = "ok"
=============================================================================
